---- MODULE Spec2Model ----
(***************************************************************************)
(* Model of the flight-booking accessibility probe:                        *)
(*   - validateElement and its helpers (src/src/utils/constants.ts)        *)
(*   - the Lambda handler that runs the seven probes (src/unnamed/part_000)*)
(*                                                                         *)
(* Null values are modelled as the empty tuple None and a present value x  *)
(* as the one-element tuple <<x>>.  A class name is a sequence of tokens;  *)
(* String.includes(word) is "word is one of the tokens".                   *)
(***************************************************************************)
EXTENDS Integers, Sequences, FiniteSets, TLC

None == << >>
Some(x) == << x >>

\* getAttribute() of an attribute that is not set
NoAttr == "<null>"
AttrVals == {NoAttr, "true", "false"}

Abs(x) == IF x < 0 THEN 0 - x ELSE x
Min(a, b) == IF a < b THEN a ELSE b

\* className.includes(word)
Includes(cls, word) == \E i \in DOMAIN cls : cls[i] = word

----------------------------------------------------------------------------
(* analyzeDomChanges and calculateAccessibilityScore: pure functions.      *)

\* Math.abs(initialEl.position.top - finalEl.position.top) < 50
MatchTolerance == 50

\* mutant: two entries are the same element only if their ids agree as well
WasVisible_ComparesId(initialVisibleElements, finalEl) ==
  \E i \in DOMAIN initialVisibleElements :
     /\ initialVisibleElements[i].className = finalEl.className
     /\ initialVisibleElements[i].tagName = finalEl.tagName
     /\ initialVisibleElements[i].id = finalEl.id
     /\ Abs(initialVisibleElements[i].position.top - finalEl.position.top) < MatchTolerance

WasVisible(initialVisibleElements, finalEl) ==
  \E i \in DOMAIN initialVisibleElements :
     /\ initialVisibleElements[i].className = finalEl.className
     /\ initialVisibleElements[i].tagName = finalEl.tagName
     /\ Abs(initialVisibleElements[i].position.top - finalEl.position.top) < MatchTolerance

\* mutant: the after-side candidates are not filtered by visibility
NewElements_Unfiltered(initialState, finalState) ==
  LET IsVis(el) == el.isVisible
      initialVisibleElements == SelectSeq(initialState.nearbyElements, IsVis)
      IsNew(el) == ~WasVisible(initialVisibleElements, el)
  IN SelectSeq(finalState.nearbyElements, IsNew)

NewElements(initialState, finalState) ==
  LET IsVis(el) == el.isVisible
      initialVisibleElements == SelectSeq(initialState.nearbyElements, IsVis)
      finalVisibleElements == SelectSeq(finalState.nearbyElements, IsVis)
      IsNew(el) == ~WasVisible(initialVisibleElements, el)
  IN SelectSeq(finalVisibleElements, IsNew)

\* finalState.siblings.forEach((finalSibling, index) => ...): the indices that
\* have an initial sibling (initialState.siblings[index] is defined)
PairedIndices(initialState, finalState) ==
  LET indices == [i \in 1..Len(finalState.siblings) |-> i]
      Paired(index) == index <= Len(initialState.siblings)
  IN SelectSeq(indices, Paired)

ChangedVisibility(initialState, finalState) ==
  LET Flipped(i) == initialState.siblings[i].isVisible # finalState.siblings[i].isVisible
      idx == SelectSeq(PairedIndices(initialState, finalState), Flipped)
  IN [k \in DOMAIN idx |->
        [element |-> finalState.siblings[idx[k]],
         wasVisible |-> initialState.siblings[idx[k]].isVisible,
         nowVisible |-> finalState.siblings[idx[k]].isVisible]]

ExpandedElements(initialState, finalState) ==
  LET Differs(i) == initialState.siblings[i].ariaExpanded # finalState.siblings[i].ariaExpanded
      idx == SelectSeq(PairedIndices(initialState, finalState), Differs)
  IN [k \in DOMAIN idx |->
        [element |-> finalState.siblings[idx[k]],
         wasExpanded |-> initialState.siblings[idx[k]].ariaExpanded,
         nowExpanded |-> finalState.siblings[idx[k]].ariaExpanded]]

\* the if / else-if chain on the first new element
ClassifyNewElement(newElement) ==
  IF newElement.tagName = "UL" \/ Includes(newElement.className, "dropdown")
        \/ Includes(newElement.className, "menu")
  THEN "dropdown"
  ELSE IF Includes(newElement.className, "modal") \/ Includes(newElement.className, "dialog")
  THEN "modal"
  ELSE IF newElement.tagName = "INPUT" \/ Includes(newElement.className, "input")
  THEN "input_expansion"
  ELSE "content_expansion"

\* mutant: the visibility-toggle rule is tested before the new-element rule
Classify_ToggleFirst(newElements, changedVisibility, expandedElements) ==
  IF Len(changedVisibility) > 0 THEN "visibility_toggle"
  ELSE IF Len(newElements) > 0 THEN ClassifyNewElement(newElements[1])
  ELSE IF Len(expandedElements) > 0 THEN "aria_expansion"
  ELSE "none"

Classify(newElements, changedVisibility, expandedElements) ==
  IF Len(newElements) > 0 THEN ClassifyNewElement(newElements[1])
  ELSE IF Len(changedVisibility) > 0 THEN "visibility_toggle"
  ELSE IF Len(expandedElements) > 0 THEN "aria_expansion"
  ELSE "none"

Describe(type, newElements, changedVisibility) ==
  CASE type = "dropdown" ->
         "Opened dropdown with " \o ToString(Len(newElements)) \o " new elements"
    [] type = "modal" -> "Opened modal dialog"
    [] type = "input_expansion" -> "Expanded input field"
    [] type = "content_expansion" -> "Revealed additional content"
    [] type = "visibility_toggle" ->
         "Toggled visibility of " \o ToString(Len(changedVisibility)) \o " elements"
    [] type = "aria_expansion" -> "Changed aria-expanded state"
    [] OTHER -> ""

analyzeDomChanges(initialState, finalState) ==
  LET newElements == NewElements(initialState, finalState)
      changedVisibility == ChangedVisibility(initialState, finalState)
      expandedElements == ExpandedElements(initialState, finalState)
      type == Classify(newElements, changedVisibility, expandedElements)
  IN [newElements |-> newElements,
      changedVisibility |-> changedVisibility,
      expandedElements |-> expandedElements,
      interactionType |-> type,
      description |-> Describe(type, newElements, changedVisibility)]

\* the score before Math.min: stateChange and domChanges are None (null) or
\* Some(record).  domChanges?.interactionType !== 'none' is true for a null
\* domChanges, and the read of expandedElements inside the if then raises;
\* domChanges is never null when success is true.
BaseScore == 50
FocusBonus == 20
AriaExpandedBonus == 15
AriaPressedBonus == 10
AriaSelectedBonus == 5
DomChangeBonus == 10
ExpansionBonus == 5
MaxScore == 100

RawScore(stateChange, domChanges) ==
  LET sc(f) == stateChange # None /\ stateChange[1][f]
      s1 == BaseScore + (IF sc("focusChanged") THEN FocusBonus ELSE 0)
      s2 == s1 + (IF sc("ariaExpandedChanged") THEN AriaExpandedBonus ELSE 0)
      s3 == s2 + (IF sc("ariaPressedChanged") THEN AriaPressedBonus ELSE 0)
      s4 == s3 + (IF sc("ariaSelectedChanged") THEN AriaSelectedBonus ELSE 0)
      typed == domChanges = None \/ domChanges[1].interactionType # "none"
  IN IF typed
     THEN s4 + DomChangeBonus
             + (IF Len(domChanges[1].expandedElements) > 0 THEN ExpansionBonus ELSE 0)
     ELSE s4

\* mutant: the total is returned without Math.min(score, 100)
calculateAccessibilityScore_NoClamp(stateChange, success, domChanges) ==
  IF ~success THEN 0 ELSE RawScore(stateChange, domChanges)

\* mutant: the aria-expansion bonus of the diff is forgotten
calculateAccessibilityScore_NoExpansionBonus(stateChange, success, domChanges) ==
  IF ~success THEN 0
  ELSE LET base == RawScore(stateChange, domChanges)
       IN Min(IF domChanges # None /\ Len(domChanges[1].expandedElements) > 0
              THEN base - ExpansionBonus ELSE base, MaxScore)

calculateAccessibilityScore(stateChange, success, domChanges) ==
  IF ~success THEN 0 ELSE Min(RawScore(stateChange, domChanges), MaxScore)

----------------------------------------------------------------------------
(* The page: a small DOM.  The static part (dom) is fixed for a run, the   *)
(* dynamic part (page) is what interactions change.  Node 0 is <body>.     *)

Rect(top, left, width, height) ==
  [top |-> top, left |-> left, width |-> width, height |-> height]

\* getBoundingClientRect() of an element that is not rendered
ZeroRect == Rect(0, 0, 0, 0)

Node(tag, cls, id, parent, rect, fixed, innerText) ==
  [tag |-> tag, className |-> cls, id |-> id, parent |-> parent, rect |-> rect,
   fixed |-> fixed, tabindex |-> None, role |-> "", ariaLabel |-> "",
   ariaLabelledby |-> "", alt |-> "", title |-> "", innerText |-> innerText]

\* The booking form: a field container (2) with its toggle button (3) and an
\* inline hint (4), a popup that is a sibling of the container (5) and an
\* overlay appended to <body> (6).  Nodes are numbered in document order.
Layout(popupClass, overlayTag, overlayFixed) ==
  << Node("DIV", <<"booking">>, "form", 0, Rect(0, 0, 1000, 400), FALSE, "Book"),
     Node("DIV", <<"field">>, "", 1, Rect(100, 100, 300, 60), FALSE, "One way"),
     Node("BUTTON", <<"toggle">>, "", 2, Rect(110, 110, 100, 40), FALSE, "One way"),
     Node("DIV", <<"hint">>, "", 2, Rect(160, 110, 200, 100), FALSE, ""),
     Node("DIV", popupClass, "", 1, Rect(170, 100, 300, 200), FALSE, ""),
     Node(overlayTag, <<"overlay">>, "", 0, Rect(200, 150, 300, 200), overlayFixed, "") >>

Layouts == { Layout(<<"panel">>, "UL", FALSE),
             Layout(<<"nav", "-", "dropdown">>, "UL", FALSE),
             Layout(<<"modal">>, "DIV", TRUE),
             Layout(<<"text", "-", "input">>, "DIV", TRUE) }

Nodes == DOMAIN Layout(<<"panel">>, "UL", FALSE)
NodeSeq == [n \in Nodes |-> n]
\* the nodes an interaction may show or hide
Toggleable == {n \in Nodes : n > 3}
Pages ==
  [displayed : {[n \in Nodes |-> n \notin h] : h \in {{}, {5, 6}}},
   ariaExpanded : {[n \in Nodes |-> IF n = 3 THEN a ELSE NoAttr] : a \in {NoAttr, "false"}},
   ariaPressed : {[n \in Nodes |-> NoAttr]},
   ariaSelected : {[n \in Nodes |-> NoAttr]},
   activeElement : {0}]

\* el.contains(other): other is el or a descendant of el
RECURSIVE Contains(_, _, _)
Contains(d, el, other) ==
  IF other = el THEN TRUE
  ELSE IF other = 0 THEN FALSE
  ELSE Contains(d, el, d[other].parent)

\* an element is rendered when it and all its ancestors are displayed
RECURSIVE Rendered(_, _, _)
Rendered(d, pg, n) ==
  IF n = 0 THEN TRUE ELSE pg.displayed[n] /\ Rendered(d, pg, d[n].parent)

BoundingClientRect(d, pg, n) == IF Rendered(d, pg, n) THEN d[n].rect ELSE ZeroRect

\* (el as HTMLElement).offsetParent !== null
HasOffsetParent(d, pg, n) == Rendered(d, pg, n) /\ ~d[n].fixed

ProximityWindow == 200
MinWidth == 50
MinHeight == 20

captureNearbyElements(d, pg, el) ==
  LET rect == BoundingClientRect(d, pg, el)
      bottom == rect.top + rect.height
      right == rect.left + rect.width
      parent == d[el].parent
      IsCandidate(c) ==
        /\ d[c].tag \in {"DIV", "UL", "SECTION"}
        /\ ~(c = el \/ Contains(d, el, c) \/ Contains(d, c, el))
        /\ LET candidateRect == BoundingClientRect(d, pg, c)
           IN /\ Abs(candidateRect.top - bottom) < ProximityWindow
              /\ Abs(candidateRect.left - rect.left) < ProximityWindow
              /\ candidateRect.width > MinWidth
              /\ candidateRect.height > MinHeight
      IsChild(c) == d[c].parent = parent
      nearby == SelectSeq(NodeSeq, IsCandidate)
      children == SelectSeq(NodeSeq, IsChild)
  IN [elementPosition |-> [top |-> rect.top, left |-> rect.left,
                           bottom |-> bottom, right |-> right],
      parentTagName |-> IF parent = 0 THEN "BODY" ELSE d[parent].tag,
      siblings |-> [k \in DOMAIN children |->
                      [tagName |-> d[children[k]].tag,
                       className |-> d[children[k]].className,
                       id |-> d[children[k]].id,
                       isVisible |-> HasOffsetParent(d, pg, children[k]),
                       hasAriaExpanded |-> pg.ariaExpanded[children[k]] # NoAttr,
                       ariaExpanded |-> pg.ariaExpanded[children[k]]]],
      nearbyElements |-> [k \in DOMAIN nearby |->
                      [tagName |-> d[nearby[k]].tag,
                       className |-> d[nearby[k]].className,
                       id |-> d[nearby[k]].id,
                       isVisible |-> HasOffsetParent(d, pg, nearby[k]),
                       position |-> BoundingClientRect(d, pg, nearby[k])]]]

\* a || b || ... || null over strings: the first non-empty one
FirstTruthy(strings) ==
  LET NonEmpty(x) == x # ""
      kept == SelectSeq(strings, NonEmpty)
  IN IF Len(kept) > 0 THEN Some(kept[1]) ELSE None

NativeTags == {"INPUT", "BUTTON", "SELECT", "TEXTAREA", "A"}

analyzeAccessibility(d, pg, el) ==
  LET n == d[el]
      tabIndex == IF n.tabindex # None THEN n.tabindex[1]
                  ELSE IF n.tag \in NativeTags THEN 0 ELSE 0 - 1
      rect == BoundingClientRect(d, pg, el)
  IN [tagName |-> n.tag,
      isVisible |-> Rendered(d, pg, el) /\ rect.width > 0 /\ rect.height > 0,
      isFocusable |-> tabIndex >= 0 \/ n.tag \in NativeTags \/ n.tabindex # None,
      ariaAttributes |->
         {a \in {<<"aria-expanded", pg.ariaExpanded[el]>>,
                 <<"aria-pressed", pg.ariaPressed[el]>>,
                 <<"aria-selected", pg.ariaSelected[el]>>,
                 <<"aria-label", IF n.ariaLabel = "" THEN NoAttr ELSE n.ariaLabel>>,
                 <<"aria-labelledby",
                   IF n.ariaLabelledby = "" THEN NoAttr ELSE n.ariaLabelledby>>,
                 <<"role", IF n.role = "" THEN NoAttr ELSE n.role>>} : a[2] # NoAttr},
      accessibleName |->
         FirstTruthy(<<n.ariaLabel, n.ariaLabelledby, n.alt, n.title, n.innerText>>),
      hasValidSemantics |-> n.tag \in NativeTags \/ n.role # ""]

\* element.evaluate(el => ({focused, ariaExpanded, ariaPressed, ariaSelected}))
ReadState(pg, el) ==
  [focused |-> pg.activeElement = el,
   ariaExpanded |-> pg.ariaExpanded[el],
   ariaPressed |-> pg.ariaPressed[el],
   ariaSelected |-> pg.ariaSelected[el]]

\* mutant: aria-expanded before is compared with aria-pressed after
StateChange_WrongField(initialState, finalState) ==
  [focusChanged |-> initialState.focused # finalState.focused,
   ariaExpandedChanged |-> initialState.ariaExpanded # finalState.ariaPressed,
   ariaPressedChanged |-> initialState.ariaPressed # finalState.ariaPressed,
   ariaSelectedChanged |-> initialState.ariaSelected # finalState.ariaSelected]

StateChange(initialState, finalState) ==
  [focusChanged |-> initialState.focused # finalState.focused,
   ariaExpandedChanged |-> initialState.ariaExpanded # finalState.ariaExpanded,
   ariaPressedChanged |-> initialState.ariaPressed # finalState.ariaPressed,
   ariaSelectedChanged |-> initialState.ariaSelected # finalState.ariaSelected]

----------------------------------------------------------------------------
(* State.                                                                  *)

VARIABLES
  dom,     \* the static DOM of the page under test
  page,    \* its dynamic state: display, aria attributes, focus
  v,       \* the activation of validateElement: its locals and its position
  t,       \* the activation of testInteractionWithDomAnalysis
  calls,   \* the page and element calls made by the current validateElement
  h,       \* the activation of handler
  sel,     \* what each selector resolves to on this page
  effects, \* the ways this page responds to a dispatched action
  d        \* a call of analyzeDomChanges on its own: arguments and result

vars == << dom, page, v, t, calls, h, sel, effects, d >>

\* err.message of the exceptions the page and element calls may raise
Messages == {"Element is not attached to the DOM", "Timeout 30000ms exceeded"}

\* InteractionSpec: type and the optional key (expectStateChange is never read)
Interaction(type, key) == [type |-> type, key |-> key]
InteractionSpecs ==
  {Interaction(ty, None) : ty \in {"click", "focus", "hover", "keydown"}}
    \cup {Interaction("keydown", Some(k)) : k \in {"Enter", ""}}

\* The selectors of VALIDATION_SELECTORS, in the order the handler probes them.
ProbeNames == << "journeyTypeDiv", "travelerInfoDiv", "promoCodeDiv", "originField",
                "startDateToggler", "endDateToggler", "searchButton" >>
Selectors == {ProbeNames[i] : i \in DOMAIN ProbeNames}

\* What a container selector and the child selector used with it resolve to:
\* the first matching node in the document, 0 when nothing matches.
Resolution(container, child) == [container |-> container, child |-> child]

\* page.$(selector)
QuerySelector(resolve, selector) == resolve[selector].container

\* container.$(childSelector): the match, when it is a descendant of container
QueryChild(tree, resolve, selector, container) ==
  LET c == resolve[selector].child
  IN IF c # 0 /\ c # container /\ Contains(tree, container, c) THEN c ELSE 0

IdleT ==
  [pc |-> "idle", element |-> 0, interaction |-> None, initialDomState |-> None,
   initialState |-> None, finalDomState |-> None, finalState |-> None,
   success |-> FALSE, error |-> None,
   stateChange |-> None, domChanges |-> None, prePage |-> None, afterPage |-> None,
   thrown |-> None]

\* the locals of validateElement at line 50-58, before page.$ is called
EnterValidate(selector, childSelector, interactionTest) ==
  [pc |-> "locate", selector |-> selector, childSelector |-> childSelector,
   interactionTest |-> interactionTest, container |-> 0, childElement |-> 0,
   found |-> FALSE, details |-> None, childFound |-> FALSE, childDetails |-> None,
   interactionResult |-> None, domChanges |-> None, initialDomState |-> None,
   located |-> FALSE, baselinePage |-> None, afterPage |-> None, caught |-> None,
   result |-> None, error |-> None]

IdleV == [EnterValidate("", None, None) EXCEPT !.pc = "idle"]

\* a rejected await outside any try block: validateElement rejects
Reject(frame, m) == [frame EXCEPT !.pc = "threw", !.error = Some(m)]

\* the call of testInteractionWithDomAnalysis(page, element, interaction, initialDomState)
EnterInteraction(element, interaction, initialDomState) ==
  [IdleT EXCEPT !.pc = "pre", !.element = element, !.interaction = Some(interaction),
                !.initialDomState = initialDomState]

\* what follows the baseline snapshot when there is no child selector (line 83)
AfterCaptureNoChild(frame) ==
  IF frame.interactionTest # None THEN "interact" ELSE "return"
\* what follows the child's analysis (line 70)
AfterChildAnalysis(frame) ==
  IF frame.interactionTest # None THEN "interact" ELSE "return"

\* the element handed to testInteractionWithDomAnalysis: the child at line 73,
\* the container at line 86
\* mutant: the container is passed where the child was meant
ChildTarget_Container(frame) == frame.container

ChildTarget(frame) == frame.childElement
ContainerTarget(frame) == frame.container

----------------------------------------------------------------------------
(* validateElement, one action per awaited page call.                      *)

\* mutant: found = (container !== undefined), which is true of null, so the
\* analysis is attempted on a null handle and raises
V_Locate_UndefinedTest ==
  /\ v.pc = "locate"
  /\ LET c == QuerySelector(sel, v.selector)
     IN IF c # 0
        THEN /\ calls' = Append(calls, <<"page.$", 0>>)
             /\ v' = [v EXCEPT !.container = c, !.found = TRUE, !.located = TRUE,
                               !.pc = "analyze"]
        ELSE /\ calls' = calls \o << <<"page.$", 0>>, <<"analyzeAccessibility", 0>> >>
             /\ v' = Reject([v EXCEPT !.found = TRUE, !.located = TRUE],
                            "Cannot read properties of null")
  /\ UNCHANGED << dom, page, t, h, sel, effects, d >>

\* const container = await page.$(selector)
V_Locate ==
  /\ v.pc = "locate"
  /\ calls' = Append(calls, <<"page.$", 0>>)
  /\ \/ LET c == QuerySelector(sel, v.selector)
        IN v' = [v EXCEPT !.container = c, !.found = (c # 0), !.located = TRUE,
                          !.pc = IF c # 0 THEN "analyze" ELSE "return"]
     \/ \E m \in Messages : v' = Reject(v, m)
  /\ UNCHANGED << dom, page, t, h, sel, effects, d >>

\* details = await analyzeAccessibility(container)
V_Analyze ==
  /\ v.pc = "analyze"
  /\ calls' = Append(calls, <<"analyzeAccessibility", v.container>>)
  /\ \/ v' = [v EXCEPT !.details = Some(analyzeAccessibility(dom, page, v.container)),
                       !.pc = "capture"]
     \/ \E m \in Messages : v' = Reject(v, m)
  /\ UNCHANGED << dom, page, t, h, sel, effects, d >>

\* const initialDomState = await captureNearbyElements(page, container)
V_Capture ==
  /\ v.pc = "capture"
  /\ calls' = Append(calls, <<"captureNearbyElements", v.container>>)
  /\ \/ /\ v' = [v EXCEPT
                   !.initialDomState = Some(captureNearbyElements(dom, page, v.container)),
                   !.baselinePage = Some(page),
                   !.pc = IF v.childSelector # None THEN "child"
                          ELSE AfterCaptureNoChild(v)]
        /\ t' = IF v.childSelector = None /\ AfterCaptureNoChild(v) = "interact"
                THEN EnterInteraction(ContainerTarget(v), v.interactionTest[1],
                                      Some(captureNearbyElements(dom, page, v.container)))
                ELSE t
     \/ /\ \E m \in Messages : v' = Reject(v, m)
        /\ t' = t
  /\ UNCHANGED << dom, page, h, sel, effects, d >>

\* const childElement = await container.$(childSelector)
V_Child ==
  /\ v.pc = "child"
  /\ calls' = Append(calls, <<"container.$", v.container>>)
  /\ \/ LET c == QueryChild(dom, sel, v.selector, v.container)
        IN v' = [v EXCEPT !.childElement = c, !.childFound = (c # 0),
                          !.pc = IF c # 0 THEN "childAnalyze" ELSE "return"]
     \/ \E m \in Messages : v' = Reject(v, m)
  /\ UNCHANGED << dom, page, t, h, sel, effects, d >>

\* childDetails = await analyzeAccessibility(childElement)
V_ChildAnalyze ==
  /\ v.pc = "childAnalyze"
  /\ calls' = Append(calls, <<"analyzeAccessibility", v.childElement>>)
  /\ \/ /\ v' = [v EXCEPT
                   !.childDetails = Some(analyzeAccessibility(dom, page, v.childElement)),
                   !.pc = AfterChildAnalysis(v)]
        /\ t' = IF AfterChildAnalysis(v) = "interact"
                THEN EnterInteraction(ChildTarget(v), v.interactionTest[1],
                                      v.initialDomState)
                ELSE t
     \/ /\ \E m \in Messages : v' = Reject(v, m)
        /\ t' = t
  /\ UNCHANGED << dom, page, h, sel, effects, d >>

\* the record returned at lines 97-105 (executionTime left out)
ValidationResult(frame) ==
  [found |-> frame.found, details |-> frame.details,
   childFound |-> frame.childFound, childDetails |-> frame.childDetails,
   interactionResult |-> frame.interactionResult, domChanges |-> frame.domChanges]

V_Return ==
  /\ v.pc = "return"
  /\ v' = [v EXCEPT !.pc = "returned", !.result = Some(ValidationResult(v))]
  /\ UNCHANGED << dom, page, t, calls, h, sel, effects, d >>

----------------------------------------------------------------------------
(* testInteractionWithDomAnalysis.                                         *)

\* What the page does in response to one dispatched action: the target may
\* take focus, its aria attributes may flip, one element may be shown or hidden.
Effects ==
  [focus : BOOLEAN,
   flips : {{}, {"expanded"}, {"pressed"}, {"selected"}, {"expanded", "pressed", "selected"}},
   toggle : {0} \cup Toggleable]

FlipAttr(a) == IF a = "true" THEN "false" ELSE "true"

ApplyEffect(pg, el, eff) ==
  [displayed |-> [n \in Nodes |-> IF n = eff.toggle THEN ~pg.displayed[n]
                                  ELSE pg.displayed[n]],
   ariaExpanded |-> [pg.ariaExpanded EXCEPT
                       ![el] = IF "expanded" \in eff.flips THEN FlipAttr(@) ELSE @],
   ariaPressed |-> [pg.ariaPressed EXCEPT
                       ![el] = IF "pressed" \in eff.flips THEN FlipAttr(@) ELSE @],
   ariaSelected |-> [pg.ariaSelected EXCEPT
                       ![el] = IF "selected" \in eff.flips THEN FlipAttr(@) ELSE @],
   activeElement |-> IF eff.focus THEN el ELSE pg.activeElement]

\* mutant: the catch block forgets to record the message
CatchInteraction_NoMessage(frame, m) == [frame EXCEPT !.pc = "return"]

\* the catch block: error = err.message, every other local as it stands
CatchInteraction(frame, m) == [frame EXCEPT !.pc = "return", !.error = Some(m)]

\* an awaited call inside the try block rejects with message m (thrown records
\* the exception itself) and control passes to the catch block
Raise(frame, m) == CatchInteraction([frame EXCEPT !.thrown = Some(m)], m)

\* mutant: for keydown the key is pressed before the element is focused
DispatchOps_PressFirst(interaction) ==
  CASE interaction.type = "click" -> << "click" >>
    [] interaction.type = "focus" -> << "focus" >>
    [] interaction.type = "hover" -> << "hover" >>
    [] interaction.type = "keydown" ->
         IF interaction.key # None /\ interaction.key[1] # ""
         THEN << "press", "focus" >> ELSE << "focus" >>
    [] OTHER -> << >>

\* the element calls of the switch, in order: keydown is focus, then press
\* when interaction.key is truthy
DispatchOps(interaction) ==
  CASE interaction.type = "click" -> << "click" >>
    [] interaction.type = "focus" -> << "focus" >>
    [] interaction.type = "hover" -> << "hover" >>
    [] interaction.type = "keydown" ->
         IF interaction.key # None /\ interaction.key[1] # ""
         THEN << "focus", "press" >> ELSE << "focus" >>
    [] OTHER -> << >>

\* const initialState = await element.evaluate(...)
T_Pre ==
  /\ v.pc = "interact" /\ t.pc = "pre"
  /\ calls' = Append(calls, <<"evaluate", t.element>>)
  /\ \/ t' = [t EXCEPT !.initialState = Some(ReadState(page, t.element)),
                       !.prePage = Some(page),
                       !.pc = "dispatch"]
     \/ \E m \in Messages : t' = Raise(t, m)
  /\ UNCHANGED << dom, page, v, h, sel, effects, d >>

RECURSIVE ApplyEffects(_, _, _)
ApplyEffects(pg, el, effs) ==
  IF effs = << >> THEN pg
  ELSE ApplyEffects(ApplyEffect(pg, el, Head(effs)), el, Tail(effs))

\* switch (interaction.type): the first n calls succeed; either that is all of
\* them, or the next one raises
T_Dispatch ==
  /\ v.pc = "interact" /\ t.pc = "dispatch"
  /\ LET ops == DispatchOps(t.interaction[1])
         Logged(k) == [i \in 1..k |-> << ops[i], t.element >>]
     IN \E n \in 0..Len(ops) : \E effs \in [1..n -> effects] :
          /\ page' = ApplyEffects(page, t.element, effs)
          /\ \/ /\ n = Len(ops)
                /\ calls' = calls \o Logged(n)
                /\ t' = [t EXCEPT !.pc = "wait"]
             \/ /\ n < Len(ops)
                /\ calls' = calls \o Logged(n + 1)
                /\ \E m \in Messages : t' = Raise(t, m)
  /\ UNCHANGED << dom, v, h, sel, effects, d >>

\* await page.waitForTimeout(300)
SettleDelay == 300

T_Wait ==
  /\ v.pc = "interact" /\ t.pc = "wait"
  /\ calls' = Append(calls, <<"waitForTimeout", SettleDelay>>)
  /\ \/ t' = [t EXCEPT !.pc = "capture"]
     \/ \E m \in Messages : t' = Raise(t, m)
  /\ UNCHANGED << dom, page, v, h, sel, effects, d >>

\* mutant: the diff is computed and stored as soon as the after snapshot is
\* taken, before the post-state read
T_Capture_EarlyDiff ==
  /\ v.pc = "interact" /\ t.pc = "capture"
  /\ calls' = Append(calls, <<"captureNearbyElements", t.element>>)
  /\ \/ t' = [t EXCEPT
                !.finalDomState = Some(captureNearbyElements(dom, page, t.element)),
                !.domChanges =
                   Some(analyzeDomChanges(t.initialDomState[1],
                                          captureNearbyElements(dom, page, t.element))),
                !.afterPage = Some(page),
                !.pc = "post"]
     \/ \E m \in Messages : t' = Raise(t, m)
  /\ UNCHANGED << dom, page, v, h, sel, effects, d >>

\* const finalDomState = await captureNearbyElements(page, element)
T_Capture ==
  /\ v.pc = "interact" /\ t.pc = "capture"
  /\ calls' = Append(calls, <<"captureNearbyElements", t.element>>)
  /\ \/ t' = [t EXCEPT
                !.finalDomState = Some(captureNearbyElements(dom, page, t.element)),
                !.afterPage = Some(page),
                !.pc = "post"]
     \/ \E m \in Messages : t' = Raise(t, m)
  /\ UNCHANGED << dom, page, v, h, sel, effects, d >>

\* const finalState = await element.evaluate(...), then lines 189-196
T_Post ==
  /\ v.pc = "interact" /\ t.pc = "post"
  /\ calls' = Append(calls, <<"evaluate", t.element>>)
  /\ \/ t' = [t EXCEPT
                !.domChanges = Some(analyzeDomChanges(t.initialDomState[1],
                                                      t.finalDomState[1])),
                !.finalState = Some(ReadState(page, t.element)),
                !.stateChange = Some(StateChange(t.initialState[1],
                                                 ReadState(page, t.element))),
                !.success = TRUE,
                !.pc = "return"]
     \/ \E m \in Messages : t' = Raise(t, m)
  /\ UNCHANGED << dom, page, v, h, sel, effects, d >>

\* the InteractionOutcome built at lines 202-209 (interactionTime left out)
InteractionOutcome(frame) ==
  [type |-> frame.interaction[1].type,
   success |-> frame.success,
   error |-> frame.error,
   stateChange |-> frame.stateChange,
   accessibilityScore |->
     calculateAccessibilityScore(frame.stateChange, frame.success, frame.domChanges)]

\* return { interactionResult, domChanges } and the two assignments in
\* validateElement (lines 77-78, 90-91)
T_Return ==
  /\ v.pc = "interact" /\ t.pc = "return"
  /\ v' = [v EXCEPT !.interactionResult = Some(InteractionOutcome(t)),
                    !.domChanges = t.domChanges,
                    !.afterPage = t.afterPage,
                    !.caught = t.thrown,
                    !.pc = "return"]
  /\ t' = IdleT
  /\ UNCHANGED << dom, page, calls, h, sel, effects, d >>

ValidateNext ==
  \/ V_Locate \/ V_Analyze \/ V_Capture \/ V_Child \/ V_ChildAnalyze \/ V_Return
  \/ T_Pre \/ T_Dispatch \/ T_Wait \/ T_Capture \/ T_Post \/ T_Return

----------------------------------------------------------------------------
(* validateElement called once, with any arguments, on any page.           *)

IdleH == [pc |-> "none"]
IdleD == [pc |-> "idle", initialState |-> None, finalState |-> None, changes |-> None]

\* the pages validateElement is tried on: the selector matches nothing, the
\* field container (with no, or either, child) or the bare button
Resolutions ==
  { Resolution(0, 0), Resolution(2, 0), Resolution(2, 3), Resolution(2, 4),
    Resolution(3, 0) }

InitValidate ==
  /\ dom \in Layouts
  /\ page \in Pages
  /\ \E r \in Resolutions : sel = [s \in Selectors |-> r]
  /\ effects = Effects
  /\ \E child \in {None, Some("button")}, it \in {None} \cup {Some(i) : i \in InteractionSpecs} :
       v = EnterValidate(ProbeNames[1], child, it)
  /\ t = IdleT
  /\ calls = << >>
  /\ h = IdleH
  /\ d = IdleD

SpecValidate == InitValidate /\ [][ValidateNext]_vars

----------------------------------------------------------------------------
(* Claims about validateElement and testInteractionWithDomAnalysis,        *)
(* checked under SpecValidate.                                             *)

DispatchCalls == {"click", "focus", "hover", "press"}
Dispatched == {i \in DOMAIN calls : calls[i][1] \in DispatchCalls}
Bonus(b, n) == IF b THEN n ELSE 0

\* C2: when the container selector matches nothing, validateElement returns
\* {found:false, details:null, childFound:false, childDetails:null,
\* interactionResult:null, domChanges:null} and makes no call on the page
\* other than the lookup itself, whatever child selector and interaction spec
\* were supplied.
C2_NotFound ==
  (v.located /\ v.container = 0) =>
    /\ v.pc \in {"return", "returned"}
    /\ ~v.found /\ v.details = None /\ ~v.childFound /\ v.childDetails = None
    /\ v.interactionResult = None /\ v.domChanges = None
    /\ calls = << <<"page.$", 0>> >>
    /\ v.pc = "returned" =>
         v.result = Some([found |-> FALSE, details |-> None, childFound |-> FALSE,
                          childDetails |-> None, interactionResult |-> None,
                          domChanges |-> None])

C2_Witness ==
  /\ v.pc = "returned" /\ v.located /\ v.container = 0
  /\ v.childSelector # None /\ v.interactionTest # None

\* C3: an exception raised by the pre-state read, the dispatch, the settle
\* wait, the after-snapshot or the post-state read is caught inside
\* testInteractionWithDomAnalysis: it returns success=false, error = the
\* exception's message, stateChange=null, accessibilityScore=0, and
\* validateElement does not reject.
C3_InteractionFailureCaught ==
  /\ t.thrown # None =>
       /\ t.pc = "return" /\ v.pc = "interact"
       /\ ~t.success /\ t.stateChange = None
  /\ v.caught # None =>
       /\ v.pc \in {"return", "returned"}
       /\ v.interactionResult =
            Some([type |-> v.interactionTest[1].type, success |-> FALSE,
                  error |-> v.caught, stateChange |-> None, accessibilityScore |-> 0])
  /\ v.pc = "threw" => (v.caught = None /\ t.pc = "idle" /\ Dispatched = {})

\* the post-state read, the last call of the try block, raised
C3_Witness ==
  /\ v.pc = "returned" /\ v.caught # None /\ Len(calls) >= 2
  /\ calls[Len(calls)][1] = "evaluate"
  /\ calls[Len(calls) - 1][1] = "captureNearbyElements"

\* C4: every InteractionOutcome has accessibilityScore in [0,100], and
\* success=false implies accessibilityScore=0.
C4_ScoreRange ==
  v.interactionResult # None =>
    /\ v.interactionResult[1].accessibilityScore \in 0..100
    /\ ~v.interactionResult[1].success => v.interactionResult[1].accessibilityScore = 0

\* every bonus applies at once: the sum exceeds 100 before the clamp
C4_Witness ==
  /\ v.interactionResult # None /\ v.interactionResult[1].success
  /\ \A f \in {"focusChanged", "ariaExpandedChanged", "ariaPressedChanged",
               "ariaSelectedChanged"} : v.interactionResult[1].stateChange[1][f]
  /\ v.domChanges[1].interactionType # "none"
  /\ v.interactionResult[1].accessibilityScore = 100

\* C5: for every probe that runs an interaction, with or without a child
\* selector, if the page is the same at the baseline capture and at the
\* after-interaction capture then domChanges.interactionType is none.
C5_DiffReflectsOwnInteraction ==
  (v.pc = "returned" /\ v.domChanges # None /\ v.baselinePage = v.afterPage) =>
    v.domChanges[1].interactionType = "none"

\* C5, for the probes without a child selector only, where the baseline and
\* the after snapshot are both taken around the container
C5_ContainerOnly ==
  (v.pc = "returned" /\ v.domChanges # None /\ v.baselinePage = v.afterPage
     /\ v.childSelector = None) =>
    v.domChanges[1].interactionType = "none"

\* C6: with a child selector the interaction is dispatched only on the located
\* child, never on the container, and not at all when the child is not found
\* (interactionResult and domChanges stay null); without a child selector and
\* with an interaction spec it is dispatched on the container.
C6_TargetSelection ==
  /\ \A i \in Dispatched :
       IF v.childSelector # None
       THEN v.childFound /\ calls[i][2] = v.childElement /\ calls[i][2] # v.container
       ELSE calls[i][2] = v.container
  /\ (v.pc = "returned" /\ v.childSelector # None /\ ~v.childFound) =>
       (v.interactionResult = None /\ v.domChanges = None /\ Dispatched = {})
  /\ (v.pc = "returned" /\ v.found /\ v.interactionTest # None
        /\ (v.childSelector # None => v.childFound)) =>
       /\ v.interactionResult # None
       /\ v.interactionResult[1].success => Dispatched # {}

C6_Witness ==
  /\ v.pc = "returned" /\ v.childSelector # None /\ v.childFound
  /\ v.interactionResult # None /\ v.interactionResult[1].success
  /\ \E i \in Dispatched : calls[i][2] = v.childElement

\* C9: for every successful outcome, accessibilityScore =
\* min(100, 50 + 20[focusChanged] + 15[ariaExpandedChanged] + 10[ariaPressedChanged]
\*          + 5[ariaSelectedChanged] + 10[interactionType is not none]
\*          + 5[expandedElements is non-empty]), the last two taken independently.
C9_ScoreFormula ==
  (v.interactionResult # None /\ v.interactionResult[1].success) =>
    LET sc == v.interactionResult[1].stateChange[1]
        dc == v.domChanges[1]
    IN v.interactionResult[1].accessibilityScore =
         Min(100, 50 + Bonus(sc.focusChanged, 20) + Bonus(sc.ariaExpandedChanged, 15)
                     + Bonus(sc.ariaPressedChanged, 10) + Bonus(sc.ariaSelectedChanged, 5)
                     + Bonus(dc.interactionType # "none", 10)
                     + Bonus(Len(dc.expandedElements) > 0, 5))

C9_Witness ==
  /\ v.interactionResult # None /\ v.interactionResult[1].success
  /\ Len(v.domChanges[1].expandedElements) > 0
  /\ v.interactionResult[1].accessibilityScore < 100

\* C10: on a successful interaction each stateChange flag is true exactly when
\* the value read before the dispatch differs from the value read after the
\* settle wait; a successful click on an element without aria-expanded has
\* ariaExpandedChanged=false.
C10_StateChangeFlags ==
  (t.pc = "return" /\ t.success) =>
    LET before == ReadState(t.prePage[1], t.element)
        after == ReadState(page, t.element)
        sc == t.stateChange[1]
    IN /\ t.initialState = Some(before) /\ t.finalState = Some(after)
       /\ sc.focusChanged = (before.focused # after.focused)
       /\ sc.ariaExpandedChanged = (before.ariaExpanded # after.ariaExpanded)
       /\ sc.ariaPressedChanged = (before.ariaPressed # after.ariaPressed)
       /\ sc.ariaSelectedChanged = (before.ariaSelected # after.ariaSelected)
       /\ (t.interaction[1].type = "click" /\ before.ariaExpanded = NoAttr
             /\ after.ariaExpanded = NoAttr) => ~sc.ariaExpandedChanged

C10_Witness ==
  /\ t.pc = "return" /\ t.success /\ t.interaction[1].type = "click"
  /\ t.prePage[1].ariaExpanded[t.element] = NoAttr
  /\ page.ariaExpanded[t.element] = NoAttr
  /\ ~t.stateChange[1].ariaExpandedChanged /\ t.stateChange[1].focusChanged

\* the calls of the interaction: from the pre-state read (the first evaluate
\* of the probe) onwards
ReadsOfState == {i \in DOMAIN calls : calls[i][1] = "evaluate"}
InteractionCalls ==
  IF ReadsOfState = {} THEN << >>
  ELSE SubSeq(calls, CHOOSE i \in ReadsOfState : \A j \in ReadsOfState : i <= j, Len(calls))
IsPrefix(a, b) == Len(a) <= Len(b) /\ \A i \in DOMAIN a : a[i] = b[i]

\* the whole interaction on element el with the given dispatch calls
InOrder(el, dispatch) ==
  << <<"evaluate", el>> >> \o [i \in DOMAIN dispatch |-> <<dispatch[i], el>>]
    \o << <<"waitForTimeout", 300>>, <<"captureNearbyElements", el>>, <<"evaluate", el>> >>

\* the dispatch sequences the claim allows for an interaction spec
AllowedDispatch(interaction) ==
  IF interaction.type = "keydown"
  THEN (IF interaction.key \in {None, Some("")} THEN {<< "focus" >>} ELSE {})
         \cup (IF interaction.key # None THEN {<< "focus", "press" >>} ELSE {})
  ELSE {<< interaction.type >>}

\* C14: within one interaction the page operations occur in the order: read
\* pre-state, dispatch, wait the 300 settle interval, capture the after
\* snapshot, read post-state, and none is skipped on the success path.  For
\* keydown the dispatch is focus followed by a key press, the press only if a
\* key is specified and never before the focus; for click, focus and hover
\* exactly the one matching action is dispatched.
C14_InteractionOrder ==
  v.interactionTest # None =>
    LET el == IF v.childSelector # None THEN v.childElement ELSE v.container
        allowed == {InOrder(el, dsp) : dsp \in AllowedDispatch(v.interactionTest[1])}
    IN /\ \E full \in allowed : IsPrefix(InteractionCalls, full)
       /\ (v.interactionResult # None /\ v.interactionResult[1].success) =>
            InteractionCalls \in allowed
       /\ (v.interactionResult # None /\ v.interactionResult[1].success
             /\ v.interactionTest[1].type = "keydown"
             /\ v.interactionTest[1].key \notin {None, Some("")}) =>
            InteractionCalls = InOrder(el, << "focus", "press" >>)

\* a successful keydown with a key: focus, then press, then the wait
C14_Witness ==
  /\ v.pc = "returned" /\ v.interactionResult # None /\ v.interactionResult[1].success
  /\ v.interactionTest[1] = Interaction("keydown", Some("Enter"))
  /\ Len(InteractionCalls) = 6
  /\ InteractionCalls[2][1] = "focus" /\ InteractionCalls[3][1] = "press"
  /\ InteractionCalls[4] = <<"waitForTimeout", 300>>

\* C17: in every ValidationResult returned by validateElement: domChanges is
\* non-null exactly when interactionResult is non-null with success=true;
\* success=true implies stateChange is non-null and error is null;
\* interactionResult non-null implies an interaction spec was supplied,
\* found=true and (a child selector was supplied implies childFound=true); and
\* childFound=true implies found=true.
C17_ResultInvariants ==
  v.result # None =>
    LET r == v.result[1]
        ir == r.interactionResult[1]
    IN /\ r.domChanges # None <=> (r.interactionResult # None /\ ir.success)
       /\ (r.interactionResult # None /\ ir.success) =>
            (ir.stateChange # None /\ ir.error = None)
       /\ r.interactionResult # None =>
            /\ v.interactionTest # None
            /\ r.found
            /\ v.childSelector # None => r.childFound
       /\ r.childFound => r.found

\* a result whose interaction on the located child failed at its last call
C17_Witness ==
  /\ v.result # None /\ v.childSelector # None /\ v.result[1].childFound
  /\ v.result[1].interactionResult # None
  /\ ~v.result[1].interactionResult[1].success
  /\ v.result[1].interactionResult[1].error # None
  /\ v.result[1].domChanges = None
  /\ Len(InteractionCalls) >= 5

----------------------------------------------------------------------------
(* handler: the Lambda entry point (src/unnamed/part_000).                 *)

\* the seven validateElement calls of lines 206-256, in program order
Probe(selector, childSelector, interactionTest) ==
  [selector |-> selector, childSelector |-> childSelector,
   interactionTest |-> interactionTest]

HandlerProbes ==
  << Probe("journeyTypeDiv",
           Some("button[role=combobox], button[aria-haspopup=listbox], button"),
           Some(Interaction("click", None))),
     Probe("travelerInfoDiv",
           Some("button[role=combobox], button[aria-haspopup=listbox], button"), None),
     Probe("promoCodeDiv", Some("input[type=text], input"), None),
     Probe("originField", Some("input[type=text], input, button[role=combobox]"),
           Some(Interaction("focus", None))),
     Probe("startDateToggler", Some("button, input[type=date], input"), None),
     Probe("endDateToggler", Some("button, input[type=date], input"), None),
     Probe("searchButton", None, Some(Interaction("hover", None))) >>

\* the awaited steps of the try block before the probes, in program order
Prelude == << "ensureDirectoriesExist", "launch", "newPage", "goto", "waitForSelector",
              "query", "screenshot", "readFile", "upload" >>
StepAfter(step) ==
  LET i == CHOOSE k \in DOMAIN Prelude : Prelude[k] = step
  IN IF i < Len(Prelude) THEN Prelude[i + 1] ELSE "probes"

\* the locals of handler at lines 126-141
EnterHandler ==
  [pc |-> Prelude[1], browser |-> FALSE, screenshotUrl |-> None, statusCode |-> 200,
   message |-> "Success", results |-> [n \in Selectors |-> None], next |-> 1,
   totalInteractiveElements |-> 0, accessibleElements |-> 0, interactiveElements |-> 0,
   closeCalls |-> 0, closeFailed |-> FALSE, locateFailed |-> FALSE, response |-> None,
   raised |-> None, raisedAt |-> None]

\* mutant: the catch block sets the message but leaves statusCode as it was
CatchHandler_KeepsStatus(frame, m) ==
  [frame EXCEPT !.message = "Error: " \o m, !.pc = "finally"]

\* catch (error): statusCode = 500; message = `Error: ${error.message}`
CatchHandler(frame, m) ==
  [frame EXCEPT !.statusCode = 500, !.message = "Error: " \o m, !.pc = "finally"]

\* a step of the try block raises an Error with message m (raised and raisedAt
\* record the exception itself and the step) and control passes to the catch
\* block
Throw(frame, m) ==
  CatchHandler([frame EXCEPT !.raised = Some(m), !.raisedAt = Some(frame.pc)], m)

\* an awaited step that only succeeds or raises
H_Step ==
  /\ h.pc \in {"ensureDirectoriesExist", "newPage", "goto", "waitForSelector",
               "screenshot", "readFile"}
  /\ \/ h' = [h EXCEPT !.pc = StepAfter(h.pc)]
     \/ \E m \in Messages : h' = Throw(h, m)
  /\ UNCHANGED << dom, page, v, t, calls, sel, effects, d >>

\* browser = await playwright.launch(...)
H_Launch ==
  /\ h.pc = "launch"
  /\ \/ h' = [h EXCEPT !.browser = TRUE, !.pc = StepAfter(h.pc)]
     \/ \E m \in Messages : h' = Throw(h, m)
  /\ UNCHANGED << dom, page, v, t, calls, sel, effects, d >>

\* const element = await page.$(PARAMETERS.selector); if (!element) throw
H_Query ==
  /\ h.pc = "query"
  /\ \/ h' = [h EXCEPT !.pc = StepAfter(h.pc)]
     \/ h' = Throw(h, "Flight booking component not found")
     \/ \E m \in Messages : h' = Throw(h, m)
  /\ UNCHANGED << dom, page, v, t, calls, sel, effects, d >>

\* await s3Client.send(...); screenshotUrl = `https://...`
H_Upload ==
  /\ h.pc = "upload"
  /\ \/ h' = [h EXCEPT !.screenshotUrl = Some("https://bucket.s3.amazonaws.com/key"),
                       !.pc = StepAfter(h.pc)]
     \/ \E m \in Messages : h' = Throw(h, m)
  /\ UNCHANGED << dom, page, v, t, calls, sel, effects, d >>

\* mutant: the probes are started from the last one to the first
H_StartProbe_Reversed ==
  /\ h.pc = "probes" /\ v.pc = "idle" /\ h.next <= Len(HandlerProbes)
  /\ LET p == HandlerProbes[Len(HandlerProbes) + 1 - h.next]
     IN v' = EnterValidate(p.selector, p.childSelector, p.interactionTest)
  /\ calls' = << >>
  /\ UNCHANGED << dom, page, t, h, sel, effects, d >>

\* xResult = await validateElement(page, selector, description, child, interaction)
H_StartProbe ==
  /\ h.pc = "probes" /\ v.pc = "idle" /\ h.next <= Len(HandlerProbes)
  /\ LET p == HandlerProbes[h.next]
     IN v' = EnterValidate(p.selector, p.childSelector, p.interactionTest)
  /\ calls' = << >>
  /\ UNCHANGED << dom, page, t, h, sel, effects, d >>

\* the await resolves: the result is assigned to the probe's variable
H_ProbeReturned ==
  /\ h.pc = "probes" /\ v.pc = "returned"
  /\ h' = [h EXCEPT !.results[v.selector] = v.result,
                    !.next = @ + 1,
                    !.pc = IF h.next = Len(HandlerProbes) THEN "summary" ELSE "probes"]
  /\ v' = IdleV
  /\ UNCHANGED << dom, page, t, calls, sel, effects, d >>

\* the await rejects: control passes to the catch block of handler
H_ProbeThrew ==
  /\ h.pc = "probes" /\ v.pc = "threw"
  /\ h' = [Throw(h, v.error[1]) EXCEPT !.locateFailed = ~v.located]
  /\ v' = IdleV
  /\ UNCHANGED << dom, page, t, calls, sel, effects, d >>

HasValidSemantics(r) ==
  \/ r.childDetails # None /\ r.childDetails[1].hasValidSemantics
  \/ r.details # None /\ r.details[1].hasValidSemantics
HasAccessibleName(r) ==
  \/ r.childDetails # None /\ r.childDetails[1].accessibleName # None
  \/ r.details # None /\ r.details[1].accessibleName # None

\* lines 258-287: the three filters and the success message
H_Summary ==
  /\ h.pc = "summary"
  /\ LET res == [i \in DOMAIN ProbeNames |-> h.results[ProbeNames[i]][1]]
         Found(r) == r.childFound \/ r.found
         total == SelectSeq(res, Found)
         Accessible(r) == HasValidSemantics(r) /\ HasAccessibleName(r)
         Interactive(r) == r.interactionResult # None /\ r.interactionResult[1].success
         accessible == SelectSeq(total, Accessible)
         interactive == SelectSeq(total, Interactive)
         allElementsFound == \A i \in DOMAIN res : res[i].found
     IN h' = [h EXCEPT
                !.totalInteractiveElements = Len(total),
                !.accessibleElements = Len(accessible),
                !.interactiveElements = Len(interactive),
                !.message =
                   IF allElementsFound
                   THEN "Success - Screenshot captured, " \o ToString(Len(total))
                          \o " elements found, " \o ToString(Len(accessible))
                          \o " accessible, " \o ToString(Len(interactive)) \o " interactive"
                   ELSE "Success - Screenshot captured but one or more elements NOT found",
                !.pc = "finally"]
  /\ UNCHANGED << dom, page, v, t, calls, sel, effects, d >>

\* mutant: close is called without the test of browser
H_Finally_Unguarded ==
  /\ h.pc = "finally"
  /\ \/ h' = [h EXCEPT !.closeCalls = @ + 1, !.pc = "respond"]
     \/ h' = [h EXCEPT !.closeCalls = @ + 1, !.closeFailed = TRUE, !.pc = "respond"]
  /\ UNCHANGED << dom, page, v, t, calls, sel, effects, d >>

\* finally: if (browser) { try { await browser.close() } catch { log } }
H_Finally ==
  /\ h.pc = "finally"
  /\ \/ h' = [h EXCEPT !.closeCalls = IF h.browser THEN @ + 1 ELSE @, !.pc = "respond"]
     \/ /\ h.browser
        /\ h' = [h EXCEPT !.closeCalls = @ + 1, !.closeFailed = TRUE, !.pc = "respond"]
  /\ UNCHANGED << dom, page, v, t, calls, sel, effects, d >>

\* divTests of the response body: the keys of the object literal at lines
\* 317-325, in the order JSON.stringify writes them
DivTests(frame) ==
  [i \in DOMAIN ProbeNames |-> [key |-> ProbeNames[i], value |-> frame.results[ProbeNames[i]]]]

\* lines 305-338: the response
H_Respond ==
  /\ h.pc = "respond"
  /\ h' = [h EXCEPT
             !.response = Some([statusCode |-> h.statusCode, message |-> h.message,
                                screenshotUrl |-> h.screenshotUrl,
                                divTests |-> DivTests(h)]),
             !.pc = "done"]
  /\ UNCHANGED << dom, page, v, t, calls, sel, effects, d >>

\* the page the handler visits: every probed field is present with its
\* control, or one field, or one field's control, is missing
BaseResolution ==
  [s \in Selectors |-> IF s = "searchButton" THEN Resolution(3, 0) ELSE Resolution(2, 3)]
HandlerResolutions ==
  {BaseResolution}
    \cup {[BaseResolution EXCEPT ![s] = Resolution(0, 0)] : s \in Selectors}
    \cup {[BaseResolution EXCEPT ![s] = Resolution(2, 0)] : s \in Selectors \ {"searchButton"}}

\* the page's responses: nothing; the control takes focus, expands and the
\* popup opens; the hint is hidden
HandlerEffects ==
  { [focus |-> FALSE, flips |-> {}, toggle |-> 0],
    [focus |-> TRUE, flips |-> {"expanded"}, toggle |-> 5],
    [focus |-> FALSE, flips |-> {}, toggle |-> 4] }

Init ==
  /\ dom = Layout(<<"nav", "-", "dropdown">>, "UL", FALSE)
  /\ page \in {pg \in Pages : ~pg.displayed[5] /\ pg.ariaExpanded[3] = "false"}
  /\ sel \in HandlerResolutions
  /\ effects = HandlerEffects
  /\ v = IdleV /\ t = IdleT /\ calls = << >> /\ d = IdleD
  /\ h = EnterHandler

Next ==
  \/ H_Step \/ H_Launch \/ H_Query \/ H_Upload
  \/ H_StartProbe \/ H_ProbeReturned \/ H_ProbeThrew \/ H_Summary
  \/ H_Finally \/ H_Respond
  \/ ValidateNext

Spec == Init /\ [][Next]_vars

\* C1: once the probes have started, a failure of an element-scoped call made
\* after a probe's container was located never aborts the sequence: every one
\* of the seven probes runs and leaves its result, and the handler answers 200.
\* (A failure of the container lookup page.$ itself is outside the claim.)
C1_ProbeFailuresAbsorbed ==
  (h.pc = "done" /\ h.next > 1 /\ ~h.locateFailed) =>
    /\ \A n \in Selectors : h.results[n] # None
    /\ h.statusCode = 200

\* the order in which the probes are requested
RequestedOrder == << "journeyTypeDiv", "travelerInfoDiv", "promoCodeDiv", "originField",
                     "startDateToggler", "endDateToggler", "searchButton" >>
Assembled(i) == h.results[RequestedOrder[i]] # None

\* C11: the handler runs its probes strictly sequentially in the order
\* journeyTypeDiv, travelerInfoDiv, promoCodeDiv, originField, startDateToggler,
\* endDateToggler, searchButton: while probe N is making its page operations the
\* result records of exactly the probes before N are assembled, and the response
\* lists the results in that same order.
C11_ProbesInOrder ==
  /\ \A i \in DOMAIN RequestedOrder : Assembled(i) => i < h.next
  /\ v.pc # "idle" =>
       /\ h.pc = "probes" /\ h.next \in DOMAIN RequestedOrder
       /\ v.selector = RequestedOrder[h.next]
       /\ \A i \in DOMAIN RequestedOrder : Assembled(i) <=> i < h.next
  /\ v.pc = "idle" /\ h.pc = "probes" => calls = << >> \/ Assembled(h.next - 1)
  /\ h.response # None =>
       /\ Len(h.response[1].divTests) = Len(RequestedOrder)
       /\ \A i \in DOMAIN RequestedOrder :
            /\ h.response[1].divTests[i].key = RequestedOrder[i]
            /\ h.response[1].divTests[i].value = h.results[RequestedOrder[i]]

\* all seven probes ran, the last one dispatched its hover, and the response
\* carries the seven results
C11_Witness ==
  /\ h.pc = "done" /\ h.response # None
  /\ \A i \in DOMAIN RequestedOrder : Assembled(i)
  /\ h.results["journeyTypeDiv"][1].interactionResult # None
  /\ h.results["searchButton"][1].interactionResult # None
  /\ \E i \in DOMAIN calls : calls[i][1] = "hover"

\* C12: the handler never raises to its caller for a failure of a step of its
\* try block (directory setup, launch, navigation, selector wait, screenshot,
\* upload, probes): it always returns a response, whose statusCode is 200 when
\* every step completed and 500 with message 'Error: <message>' when a step
\* raised.
C12_AlwaysResponds ==
  /\ ~(ENABLED Next) => h.pc = "done"
  /\ h.raised # None => h.pc \in {"finally", "respond", "done"}
  /\ h.pc = "done" =>
       /\ h.response # None
       /\ h.response[1].statusCode \in {200, 500}
       /\ h.raised = None =>
            /\ h.response[1].statusCode = 200
            /\ \A n \in Selectors : h.results[n] # None
       /\ h.raised # None =>
            /\ h.response[1].statusCode = 500
            /\ h.response[1].message = "Error: " \o h.raised[1]

\* a probe rejected after the first probe had returned, and the handler answered
C12_Witness ==
  /\ h.pc = "done" /\ h.raised # None /\ h.next > 1 /\ h.next <= Len(HandlerProbes)
  /\ h.response # None /\ h.response[1].statusCode = 500

\* C13: in every error response of the handler (statusCode 500) screenshotUrl
\* is null; a non-null screenshotUrl is returned only in a success response
\* (statusCode 200).
C13_ErrorHasNoScreenshot ==
  h.response # None =>
    /\ h.response[1].statusCode = 500 => h.response[1].screenshotUrl = None
    /\ h.response[1].screenshotUrl # None => h.response[1].statusCode = 200

\* C13 for the steps up to and including the upload: a failure there leaves
\* screenshotUrl null
C13_BeforeProbes ==
  (h.response # None /\ h.raised # None /\ calls = << >>) =>
    h.response[1].screenshotUrl = None

\* the steps before launch has returned a browser
BeforeBrowser == {"ensureDirectoriesExist", "launch"}
Launched == h.pc \notin BeforeBrowser /\ (h.raisedAt # None => h.raisedAt[1] \notin BeforeBrowser)

C15_CloseState ==
  /\ h.pc \in {"respond", "done"} => h.closeCalls = IF Launched THEN 1 ELSE 0
  /\ h.pc \notin {"respond", "done"} => h.closeCalls = 0 /\ ~h.closeFailed
  /\ h.raisedAt = Some("launch") => h.closeCalls = 0
  /\ (h.pc = "done" /\ h.closeFailed) =>
       /\ h.response # None
       /\ h.response[1].statusCode = IF h.raised = None THEN 200 ELSE 500
       /\ h.raised # None => h.response[1].message = "Error: " \o h.raised[1]

C15_CloseStep ==
  h.pc = "finally" =>
    /\ h'.pc = "respond"
    /\ h'.statusCode = h.statusCode /\ h'.message = h.message

\* C15: on every path on which launch returned a browser (the try block
\* completed, or a later step raised) browser.close() is invoked exactly once
\* before the response is returned; when the launch itself failed close is not
\* invoked; a failure of close neither raises out of the handler nor changes
\* statusCode or message.
C15_CloseOnce == []C15_CloseState /\ [][C15_CloseStep]_vars

\* a probe rejected, close was called once and failed, the response is the 500
C15_Witness ==
  /\ h.pc = "done" /\ h.raisedAt = Some("probes") /\ h.closeFailed /\ h.closeCalls = 1
  /\ h.response # None /\ h.response[1].statusCode = 500

----------------------------------------------------------------------------
(* analyzeDomChanges applied to pairs of snapshots drawn from bounded sets. *)

MaxNearbyAfter == 2
MaxNearbyBefore == 1
MaxSiblings == 1

SeqsUpTo(S, n) == UNION {[1..k -> S] : k \in 0..n}

Nearby(tag, cls, visible, top) ==
  [tagName |-> tag, className |-> cls, id |-> "", isVisible |-> visible,
   position |-> Rect(top, 100, 300, 200)]

Sibling(visible, expanded) ==
  [tagName |-> "DIV", className |-> <<"field">>, id |-> "", isVisible |-> visible,
   hasAriaExpanded |-> expanded # NoAttr, ariaExpanded |-> expanded]

\* after-side candidates: one of each kind the classification tells apart, and
\* a plain panel, visible and not, at top 50
NearbyAfterPool ==
  { Nearby("DIV", <<"panel">>, TRUE, 50), Nearby("DIV", <<"panel">>, FALSE, 50),
    Nearby("UL", <<"panel">>, TRUE, 50), Nearby("DIV", <<"nav", "-", "dropdown">>, TRUE, 50),
    Nearby("DIV", <<"menu">>, TRUE, 50), Nearby("DIV", <<"modal">>, TRUE, 50),
    Nearby("DIV", <<"dialog">>, TRUE, 50), Nearby("INPUT", <<"panel">>, TRUE, 50),
    Nearby("DIV", <<"text", "-", "input">>, TRUE, 50) }

\* before-side candidates: a plain panel 49 units above, with another id, left,
\* width and height; one 50 units above; and a hidden one
NearbyBeforePool ==
  { [Nearby("DIV", <<"panel">>, TRUE, 1) EXCEPT !.id = "old",
                                               !.position = Rect(1, 120, 320, 180)],
    Nearby("DIV", <<"panel">>, TRUE, 0),
    Nearby("DIV", <<"panel">>, FALSE, 50) }

SiblingPool == { Sibling(TRUE, NoAttr), Sibling(FALSE, NoAttr), Sibling(TRUE, "true") }

Snapshot(siblings, nearby) ==
  [elementPosition |-> [top |-> 100, left |-> 100, bottom |-> 160, right |-> 400],
   parentTagName |-> "DIV", siblings |-> siblings, nearbyElements |-> nearby]

AfterSnapshots ==
  {Snapshot(s, n) : s \in SeqsUpTo(SiblingPool, MaxSiblings),
                    n \in SeqsUpTo(NearbyAfterPool, MaxNearbyAfter)}
BeforeSnapshots ==
  {Snapshot(s, n) : s \in SeqsUpTo(SiblingPool, MaxSiblings),
                    n \in SeqsUpTo(NearbyBeforePool, MaxNearbyBefore)}

\* the before snapshot is any of BeforeSnapshots, or the after snapshot itself
InitDiff ==
  /\ dom = Layout(<<"panel">>, "UL", FALSE)
  /\ page \in {pg \in Pages : pg.displayed[5] /\ pg.ariaExpanded[3] = NoAttr}
  /\ sel = [s \in Selectors |-> Resolution(0, 0)]
  /\ effects = {}
  /\ v = IdleV /\ t = IdleT /\ calls = << >> /\ h = IdleH
  /\ \E after \in AfterSnapshots : \E before \in BeforeSnapshots \cup {after} :
       d = [pc |-> "call", initialState |-> Some(before), finalState |-> Some(after),
            changes |-> None]

D_Analyze ==
  /\ d.pc = "call"
  /\ d' = [d EXCEPT !.pc = "done",
                    !.changes = Some(analyzeDomChanges(d.initialState[1], d.finalState[1]))]
  /\ UNCHANGED << dom, page, v, t, calls, h, sel, effects >>

SpecDiff == InitDiff /\ [][D_Analyze]_vars

----------------------------------------------------------------------------
(* Claims about analyzeDomChanges, checked under SpecDiff.                 *)

HasAny(cls, words) == \E w \in words : Includes(cls, w)

\* C7: the classification is a priority cascade: with a new element the type
\* comes from the first new element only (UL or class with dropdown/menu:
\* dropdown; else class with modal/dialog: modal; else INPUT or class with
\* input: input_expansion; else content_expansion); else a visibility change
\* gives visibility_toggle; else an aria-expanded change gives aria_expansion;
\* else none.  A new dropdown-like element beside a visibility toggle is a
\* dropdown.
C7_Cascade ==
  d.pc = "done" =>
    LET r == d.changes[1]
        first == r.newElements[1]
    IN /\ r.interactionType =
            IF r.newElements # << >>
            THEN IF first.tagName = "UL" \/ HasAny(first.className, {"dropdown", "menu"})
                 THEN "dropdown"
                 ELSE IF HasAny(first.className, {"modal", "dialog"}) THEN "modal"
                 ELSE IF first.tagName = "INPUT" \/ HasAny(first.className, {"input"})
                 THEN "input_expansion"
                 ELSE "content_expansion"
            ELSE IF r.changedVisibility # << >> THEN "visibility_toggle"
            ELSE IF r.expandedElements # << >> THEN "aria_expansion"
            ELSE "none"
       /\ (/\ r.changedVisibility # << >>
           /\ \E i \in DOMAIN d.finalState[1].nearbyElements :
                LET el == d.finalState[1].nearbyElements[i]
                IN /\ el.isVisible
                   /\ el.tagName = "UL" \/ HasAny(el.className, {"dropdown", "menu"})
                   /\ r.newElements # << >> /\ r.newElements[1] = el)
            => r.interactionType = "dropdown"

\* a new dropdown first, a new modal second, and a sibling whose visibility flipped
C7_Witness ==
  /\ d.pc = "done"
  /\ Len(d.changes[1].newElements) = 2
  /\ Includes(d.changes[1].newElements[1].className, "dropdown")
  /\ Includes(d.changes[1].newElements[2].className, "modal")
  /\ Len(d.changes[1].changedVisibility) > 0
  /\ d.changes[1].interactionType = "dropdown"

\* C8: analyzeDomChanges(S, S) has interactionType none, an empty description
\* and empty newElements, changedVisibility and expandedElements.
C8_SelfDiff ==
  (d.pc = "done" /\ d.initialState = d.finalState) =>
    d.changes = Some([newElements |-> << >>, changedVisibility |-> << >>,
                      expandedElements |-> << >>, interactionType |-> "none",
                      description |-> ""])

\* S has siblings and both visible and invisible nearby elements
C8_Witness ==
  /\ d.pc = "done" /\ d.initialState = d.finalState
  /\ Len(d.finalState[1].siblings) > 0
  /\ \E i, j \in DOMAIN d.finalState[1].nearbyElements :
       /\ d.finalState[1].nearbyElements[i].isVisible
       /\ ~d.finalState[1].nearbyElements[j].isVisible

\* C16: newElements is exactly the visible entries of after.nearbyElements for
\* which no visible entry of before.nearbyElements has the same tagName, the
\* same className and a top position within the 50-unit tolerance; invisible
\* entries on either side never match and are never reported, and id, left,
\* width and height play no part in the match.
C16_NewElements ==
  d.pc = "done" =>
    LET before == d.initialState[1].nearbyElements
        after == d.finalState[1].nearbyElements
        Persisted(el) ==
          \E i \in DOMAIN before :
             /\ before[i].isVisible
             /\ before[i].tagName = el.tagName /\ before[i].className = el.className
             /\ before[i].position.top - el.position.top < 50
             /\ el.position.top - before[i].position.top < 50
        Reported(el) == el.isVisible /\ ~Persisted(el)
    IN /\ d.changes[1].newElements = SelectSeq(after, Reported)
       /\ \A i \in DOMAIN d.changes[1].newElements : d.changes[1].newElements[i].isVisible

\* a visible panel persisted although its id, left, width and height changed
\* and its top moved by 49, while another element is reported as new
C16_Witness ==
  /\ d.pc = "done" /\ d.changes[1].newElements # << >>
  /\ \E i \in DOMAIN d.finalState[1].nearbyElements :
     \E j \in DOMAIN d.initialState[1].nearbyElements :
       LET a == d.finalState[1].nearbyElements[i]
           b == d.initialState[1].nearbyElements[j]
       IN /\ a.isVisible /\ b.isVisible
          /\ a.tagName = b.tagName /\ a.className = b.className
          /\ a.id # b.id /\ a.position.left # b.position.left
          /\ a.position.width # b.position.width /\ a.position.height # b.position.height
          /\ a.position.top - b.position.top = 49
          /\ \A k \in DOMAIN d.changes[1].newElements : d.changes[1].newElements[k] # a

====
